---- MODULE Spec2Model ----
(***************************************************************************)
(* A model of rtz-core/src/geo/tz/ned.rs: the Natural Earth timezone       *)
(* dataset (ConcreteTimezones / NedTimezone), the parallel grid sweep      *)
(* get_cache_from_timezones, the cache artifact written by                 *)
(* generate_cache_bincode, and i16_vec_to_tomezoneids.                     *)
(*                                                                         *)
(* Coordinates of geometries are integers counted in lattice units:        *)
(* UnitsPerDegree units make one degree, so a grid cell (x, y) is the      *)
(* rectangle from (x*U, y*U) to ((x+1)*U, (y+1)*U).  A geometry is a       *)
(* MultiPolygon whose members are axis-aligned rectangles with corners on  *)
(* the lattice (a Polygon is the one-member case).                         *)
(***************************************************************************)
EXTENDS Integers, Sequences, FiniteSets

VARIABLES
    features,     \* the FeatureCollection handed to get_timezones_from_features
    timezones,    \* the result of construction / the dataset the sweep reads
    sample,       \* the name of the sample dataset the loop body reads
    cell,         \* the (x, y) the loop body is applied to
    intersected,  \* the Vec the loop body built for `cell`
    value,        \* the Vec<i16> handed to i16_vec_to_tomezoneids
    ids,          \* what i16_vec_to_tomezoneids returned
    poolSize,     \* number of rayon worker threads
    pending,      \* longitude bands no worker has started
    worker,       \* per worker thread: the band and latitude it is at
    map,          \* the CHashMap
    writes,       \* history: per key, the workers whose insert reached the map
    replaced,     \* history: keys for which an insert returned Some(old)
    cache,        \* the HashMap the drain fills and the function returns
    pc,           \* where the running entry point is
    run,          \* which run of generate_cache_bincode this is
    artifacts,    \* the cache artifact each finished run wrote
    tested,       \* history: per (x, y, record), the runs of line 28 on it
    files         \* what the two bincode destinations hold

vars == <<features, timezones, sample, cell, intersected, value, ids, poolSize, pending,
          worker, map, writes, replaced, cache, pc, run, artifacts, tested,
          files>>

----------------------------------------------------------------------------
(* Bounds of the model.                                                    *)

\* lattice units per degree
UnitsPerDegree == 2
\* longest FeatureCollection handed to dataset construction
MaxFeatures == 2
\* longest Vec<i16> handed to i16_vec_to_tomezoneids
MaxVecLen == 6
\* number of longitude bands of the scaled-down concurrent sweep
NumBands == 2
\* number of latitudes per band of the scaled-down concurrent sweep
NumRows == 2
\* largest rayon pool
MaxWorkers == 2
\* size of the large FeatureCollection (one record past i16::MAX)
LargeCount == 32769

(* Program constants.                                                      *)

\* (-180..180).into_par_iter()
LNG_START == -180
LNG_END == 180
\* for y in -90..90
LAT_START == -90
LAT_END == 90
\* pub type RoundInt = i16
RoundIntBits == 16
\* const TIMEZONE_LIST_LENGTH: usize = 5
TIMEZONE_LIST_LENGTH == 5

----------------------------------------------------------------------------
(* Option<T> is a sequence of length 0 or 1; a call that may panic returns *)
(* a record with the flag `ok`.                                            *)

None == <<>>
Some(v) == <<v>>
IsSome(o) == Len(o) = 1
Unwrap(o) == o[1]

Panic == [ok |-> FALSE, val |-> <<>>]
Ok(v) == [ok |-> TRUE, val |-> v]

----------------------------------------------------------------------------
(* JSON values of a feature's property map (serde_json::Value).            *)

JsonNull == [t |-> "null", s |-> "", n |-> 0]
JsonString(str) == [t |-> "string", s |-> str, n |-> 0]
\* a JSON number, counted in thousandths
JsonNumber(milli) == [t |-> "number", s |-> "", n |-> milli]

\* serde_json::Value::as_str
as_str(j) == IF j.t = "string" THEN Some(j.s) ELSE None
\* serde_json::Value::as_f64
as_f64(j) == IF j.t = "number" THEN Some(j.n) ELSE None
\* serde_json::Map::get
get(properties, key) ==
    IF key \in DOMAIN properties THEN Some(properties[key]) ELSE None

----------------------------------------------------------------------------
(* Geometry.                                                               *)

\* geo::Rect::new: the two corners in any order, stored as min and max
RectNew(x1, y1, x2, y2) ==
    [minx |-> IF x1 <= x2 THEN x1 ELSE x2, miny |-> IF y1 <= y2 THEN y1 ELSE y2,
     maxx |-> IF x1 <= x2 THEN x2 ELSE x1, maxy |-> IF y1 <= y2 THEN y2 ELSE y1]

\* line 23: Rect::new(Coord {x: xf, y: yf}, Coord {x: xf + 1.0, y: yf + 1.0})
CellRect(x, y) ==
    RectNew(x * UnitsPerDegree, y * UnitsPerDegree,
            (x + 1) * UnitsPerDegree, (y + 1) * UnitsPerDegree)

\* RectIntersects counting overlap of interiors only
RectIntersectsInterior(a, b) ==
    /\ a.minx < b.maxx /\ b.minx < a.maxx
    /\ a.miny < b.maxy /\ b.miny < a.maxy

\* geo's Intersects between a rectangular polygon and a Rect: they share a
\* point, boundary contact included
RectIntersects(a, b) ==
    /\ a.minx <= b.maxx /\ b.minx <= a.maxx
    /\ a.miny <= b.maxy /\ b.miny <= a.maxy

\* line 28: tz.geometry.intersects(&rect); a MultiPolygon intersects when a
\* member does
Intersects(geometry, rect) ==
    \E i \in DOMAIN geometry : RectIntersects(geometry[i], rect)

----------------------------------------------------------------------------
(* NedTimezone and ConcreteTimezones.                                      *)

(* f32 arithmetic.  An f32 is written <<m, s>> for m * 2^-s, with a       *)
(* mantissa of 24 bits (2^23 <= |m| < 2^24) or m = 0, s = 0, so that two   *)
(* f32 are equal exactly when their pairs are; every intermediate value    *)
(* stays within 32 bits.                                                   *)

\* q + r/1000 doubled until q has 24 bits: <<q, r, number of doublings>>
RECURSIVE F32Scale(_, _, _)
F32Scale(q, r, s) ==
    IF q >= 2 ^ 23 THEN <<q, r, s>>
    ELSE F32Scale(2 * q + (2 * r) \div 1000, (2 * r) % 1000, s + 1)

\* a mantissa that rounding carried to 2^24, brought back to 24 bits
Normalized(m, s) == IF m >= 2 ^ 24 THEN <<m \div 2, s - 1>> ELSE <<m, s>>

\* the f32 nearest to milli / 1000 (milli > 0), ties to even
ToF32(milli) ==
    LET t == F32Scale(milli \div 1000, milli % 1000, 0)
        up == 2 * t[2] > 1000 \/ (2 * t[2] = 1000 /\ t[1] % 2 = 1)
    IN Normalized(IF up THEN t[1] + 1 ELSE t[1], t[3])

\* line 208: `as f32` of a number given in thousandths
AsF32(milli) ==
    IF milli = 0 THEN <<0, 0>>
    ELSE IF milli > 0 THEN ToF32(milli)
    ELSE <<0 - ToF32(0 - milli)[1], ToF32(0 - milli)[2]>>

\* m * 225 / 2^k as <<quotient, remainder>>
Times225Shifted(m, k) ==
    LET a == m \div 2 ^ k
        b == m % 2 ^ k
    IN <<a * 225 + (b * 225) \div 2 ^ k, (b * 225) % 2 ^ k>>

\* line 214: the f32 product f * 3600.0 of a positive f (3600 = 225 * 2^4),
\* to nearest, ties to even, s possibly negative
TimesF32By3600(f) ==
    LET k == IF Times225Shifted(f[1], 7)[1] >= 2 ^ 24 THEN 8 ELSE 7
        p == Times225Shifted(f[1], k)
        up == 2 * p[2] > 2 ^ k \/ (2 * p[2] = 2 ^ k /\ p[1] % 2 = 1)
    IN Normalized(IF up THEN p[1] + 1 ELSE p[1], f[2] - 4 - k)

\* line 214: f32::round of a positive f, half away from zero, then
\* `as i32` with the sign given: the cast saturates at i32::MAX and at
\* i32::MIN
RoundF32ToI32(f, negative) ==
    IF f[2] <= 0 /\ 0 - f[2] > 7
    THEN IF negative THEN 0 - (2 ^ 30 - 1) * 2 - 2 ELSE (2 ^ 30 - 1) * 2 + 1
    ELSE LET magnitude ==
                 IF f[2] <= 0 THEN f[1] * 2 ^ (0 - f[2])
                 ELSE IF f[2] > 25 THEN 0
                 ELSE IF 2 * (f[1] % 2 ^ f[2]) >= 2 ^ f[2]
                      THEN f[1] \div 2 ^ f[2] + 1
                      ELSE f[1] \div 2 ^ f[2]
         IN IF negative THEN 0 - magnitude ELSE magnitude

\* line 214: (zone * 3600.0).round() as i32, zone an f32
RoundOffset(zone) ==
    IF zone[1] = 0 THEN 0
    ELSE IF zone[1] > 0 THEN RoundF32ToI32(TimesF32By3600(zone), FALSE)
    ELSE RoundF32ToI32(TimesF32By3600(<<0 - zone[1], zone[2]>>), TRUE)

\* RequiredStr with unwrap_or_default in place of the first unwrap
RequiredStrDefaulted(properties, key) ==
    LET json == get(properties, key)
    IN IF ~IsSome(json) THEN Ok("")
       ELSE IF ~IsSome(as_str(Unwrap(json))) THEN Panic
       ELSE Ok(Unwrap(as_str(Unwrap(json))))

\* lines 204, 206: properties.get(key).unwrap().as_str().unwrap().to_owned()
RequiredStr(properties, key) ==
    LET json == get(properties, key)
    IN IF ~IsSome(json) THEN Panic
       ELSE IF ~IsSome(as_str(Unwrap(json))) THEN Panic
       ELSE Ok(Unwrap(as_str(Unwrap(json))))

\* lines 203, 207: properties.get(key).unwrap().as_str().map(ToOwned::to_owned)
OptionalStr(properties, key) ==
    LET json == get(properties, key)
    IN IF ~IsSome(json) THEN Panic ELSE Ok(as_str(Unwrap(json)))

\* line 208: properties.get(key).unwrap().as_f64().unwrap() as f32
RequiredF64(properties, key) ==
    LET json == get(properties, key)
    IN IF ~IsSome(json) THEN Panic
       ELSE IF ~IsSome(as_f64(Unwrap(json))) THEN Panic
       ELSE Ok(AsF32(Unwrap(as_f64(Unwrap(json)))))

\* the least k with n / 2^k below 2^24, the width of an f32 mantissa
RECURSIVE FloatShift(_, _)
FloatShift(n, k) ==
    IF n \div 2 ^ k < 2 ^ 24 THEN k ELSE FloatShift(n, k + 1)

\* `as Float` of a non-negative whole number: the nearest number with a
\* 24-bit mantissa, ties to the even mantissa
FloatOfMagnitude(n) ==
    LET k == FloatShift(n, 0)
        q == n \div 2 ^ k
        r == n % 2 ^ k
        up == 2 * r > 2 ^ k \/ (2 * r = 2 ^ k /\ q % 2 = 1)
    IN  (IF up THEN q + 1 ELSE q) * 2 ^ k

\* `c as Float` of a coordinate (Float is f32)
AsFloat(c) == IF c < 0 THEN 0 - FloatOfMagnitude(0 - c) ELSE FloatOfMagnitude(c)

\* line 210: Rect::new of bbox[0] as Float .. bbox[3] as Float; indexing
\* past the end panics
BBoxRect(bbox) ==
    IF Len(bbox) < 4 THEN Panic
    ELSE Ok(RectNew(AsFloat(bbox[1]), AsFloat(bbox[2]),
                    AsFloat(bbox[3]), AsFloat(bbox[4])))

\* line 212: geometry.value.clone().try_into().unwrap(), the coordinates
\* becoming Float
ConvertGeometry(geometry) ==
    IF geometry.convertible
    THEN Ok([i \in DOMAIN geometry.rects |->
                RectNew(AsFloat(geometry.rects[i].minx), AsFloat(geometry.rects[i].miny),
                        AsFloat(geometry.rects[i].maxx), AsFloat(geometry.rects[i].maxy))])
    ELSE Panic

\* impl From<(usize, &geojson::Feature)> for NedTimezone
NedTimezoneFrom(id, feature) ==
    IF \/ ~IsSome(feature.bbox)
       \/ ~IsSome(feature.properties)
       \/ ~IsSome(feature.geometry)
    THEN Panic
    ELSE
    LET properties == Unwrap(feature.properties)
        dst_places == OptionalStr(properties, "dst_places")
        places == RequiredStr(properties, "places")
        time_zone == RequiredStr(properties, "time_zone")
        tz_name1st == OptionalStr(properties, "tz_name1st")
        zone == RequiredF64(properties, "zone")
        bbox == BBoxRect(Unwrap(feature.bbox))
        geometry == ConvertGeometry(Unwrap(feature.geometry))
    IN IF /\ dst_places.ok /\ places.ok /\ time_zone.ok /\ tz_name1st.ok
          /\ zone.ok /\ bbox.ok /\ geometry.ok
       THEN Ok([id |-> id,
                identifier |-> tz_name1st.val,
                description |-> places.val,
                dst_description |-> dst_places.val,
                offset |-> time_zone.val,
                zone |-> zone.val,
                raw_offset |-> RoundOffset(zone.val),
                bbox |-> bbox.val,
                geometry |-> geometry.val])
       ELSE Panic

\* ConcreteTimezonesFrom with ids counted from 1
ConcreteTimezonesFromOneBased(collection) ==
    IF \E i \in DOMAIN collection : ~NedTimezoneFrom(i, collection[i]).ok
    THEN Panic
    ELSE Ok([i \in DOMAIN collection |-> NedTimezoneFrom(i, collection[i]).val])

\* impl From<&geojson::FeatureCollection> for ConcreteTimezones:
\* features.iter().enumerate().map(NedTimezone::from).collect()
ConcreteTimezonesFrom(collection) ==
    IF \E i \in DOMAIN collection : ~NedTimezoneFrom(i - 1, collection[i]).ok
    THEN Panic
    ELSE Ok([i \in DOMAIN collection |-> NedTimezoneFrom(i - 1, collection[i]).val])

\* get_timezones_from_features
get_timezones_from_features(collection) == ConcreteTimezonesFrom(collection)

----------------------------------------------------------------------------
(* The sweep's loop body and the candidate-id array.                       *)

\* `as RoundInt`: a usize (or i32) cast to i16 keeps the low 16 bits
ToRoundInt(n) ==
    LET m == n % (2 ^ RoundIntBits)
    IN IF m >= 2 ^ (RoundIntBits - 1) THEN m - 2 ^ RoundIntBits ELSE m

\* lines 20-31: the Vec built for the cell (x, y), records visited in
\* dataset order, each intersecting one pushed as `tz.id as RoundInt`
Intersected(tzs, x, y) ==
    LET rect == CellRect(x, y)
        Hit(tz) == Intersects(tz.geometry, rect)
        hits == SelectSeq(tzs, Hit)
    IN [i \in 1..Len(hits) |-> ToRoundInt(hits[i].id)]

\* the key without its longitude
KeyLatitudeOnly(x, y) == <<ToRoundInt(0), ToRoundInt(y)>>

\* line 33: the key (x as RoundInt, y as RoundInt)
Key(x, y) == <<ToRoundInt(x), ToRoundInt(y)>>

\* Vec::get(i).cloned().unwrap_or(-1), i counted from 0
GetOr(vec, i) == IF i < Len(vec) THEN vec[i + 1] ELSE -1

\* i16_vec_to_tomezoneids without its length check
i16_vec_to_tomezoneidsTruncating(vec) ==
    Ok(<<GetOr(vec, 0), GetOr(vec, 1), GetOr(vec, 2), GetOr(vec, 3),
         GetOr(vec, 4)>>)

\* i16_vec_to_tomezoneids
i16_vec_to_tomezoneids(vec) ==
    IF Len(vec) > TIMEZONE_LIST_LENGTH
    THEN Panic
    ELSE Ok(<<GetOr(vec, 0), GetOr(vec, 1), GetOr(vec, 2), GetOr(vec, 3),
              GetOr(vec, 4)>>)

----------------------------------------------------------------------------
(* Inputs: features and feature collections.                               *)

PropertyKeys == {"dst_places", "places", "time_zone", "tz_name1st", "zone"}

\* a geojson geometry: whether try_into::<Geometry<Float>>() succeeds, and
\* the rectangles it converts to
GeoJsonGeometry(rects) == [convertible |-> TRUE, rects |-> rects]
Unconvertible == [convertible |-> FALSE, rects |-> <<>>]

\* a rectangle given in degrees
Box(west, south, east, north) ==
    RectNew(west * UnitsPerDegree, south * UnitsPerDegree,
            east * UnitsPerDegree, north * UnitsPerDegree)
\* a rectangle given in lattice units
FineBox(west, south, east, north) == RectNew(west, south, east, north)

BBoxOf(r) == <<r.minx, r.miny, r.maxx, r.maxy>>

Properties(places, dst_places, time_zone, tz_name1st, zone) ==
    [k \in PropertyKeys |->
        CASE k = "places" -> places
          [] k = "dst_places" -> dst_places
          [] k = "time_zone" -> time_zone
          [] k = "tz_name1st" -> tz_name1st
          [] OTHER -> zone]

Feature(bbox, properties, geometry) ==
    [bbox |-> bbox, properties |-> properties, geometry |-> geometry]

Without(properties, key) == [k \in DOMAIN properties \ {key} |-> properties[k]]
With(properties, key, json) == [properties EXCEPT ![key] = json]

\* Scenario A: id 0, "Test/Zone", zone 0.0, lng [-10, 10], lat [-10, 10]
ScenarioAProperties ==
    Properties(JsonString("Test places"), JsonString("Test DST"),
               JsonString("UTC+00:00"), JsonString("Test/Zone"), JsonNumber(0))
ScenarioARect == Box(-10, -10, 10, 10)
ScenarioAFeature ==
    Feature(Some(BBoxOf(ScenarioARect)), Some(ScenarioAProperties),
            Some(GeoJsonGeometry(<<ScenarioARect>>)))

\* a feature whose optional properties are JSON null
NepalRect == FineBox(-1, -3, 3, 1)
NepalProperties ==
    Properties(JsonString("Nepal"), JsonNull, JsonString("UTC+05:45"), JsonNull,
               JsonNumber(5750))
NepalFeature ==
    Feature(Some(BBoxOf(NepalRect)), Some(NepalProperties),
            Some(GeoJsonGeometry(<<NepalRect>>)))

\* the Scenario A feature with its properties / geometry / bbox replaced
WithProperties(properties) == [ScenarioAFeature EXCEPT !.properties = properties]

DefectiveFeatures ==
    {WithProperties(Some(Without(ScenarioAProperties, k))) : k \in PropertyKeys}
    \cup {WithProperties(Some(With(ScenarioAProperties, k, JsonNull))) :
            k \in PropertyKeys}
    \cup {WithProperties(Some(With(ScenarioAProperties, k, JsonNumber(1000)))) :
            k \in PropertyKeys \ {"zone"}}
    \cup {WithProperties(Some(With(ScenarioAProperties, "zone", JsonString("0")))),
          WithProperties(None),
          [ScenarioAFeature EXCEPT !.bbox = None],
          [ScenarioAFeature EXCEPT !.bbox = Some(<<0, 0>>)],
          [ScenarioAFeature EXCEPT !.geometry = None],
          [ScenarioAFeature EXCEPT !.geometry = Some(Unconvertible)]}

SampleFeatures == {ScenarioAFeature, NepalFeature} \cup DefectiveFeatures

FeatureCollections ==
    UNION {[1..n -> SampleFeatures] : n \in 0..MaxFeatures}

\* a MultiPolygon: one member inside NepalRect's east, the others in the
\* grid's north-east and south-west corners
IslandsRects ==
    <<FineBox(2, 1, 3, 2), Box(LNG_END - 1, LAT_END - 1, LNG_END, LAT_END),
      Box(LNG_START, LAT_START, LNG_START + 1, LAT_START + 1)>>
IslandsFeature ==
    Feature(Some(<<LNG_START * UnitsPerDegree, LAT_START * UnitsPerDegree,
                   LNG_END * UnitsPerDegree, LAT_END * UnitsPerDegree>>),
            Some(Properties(JsonString("Islands"), JsonString("none"),
                            JsonString("UTC-09:30"), JsonString("Test/Islands"),
                            JsonNumber(-9500))),
            Some(GeoJsonGeometry(IslandsRects)))

\* a feature far from the origin
FarRect == Box(100, 50, 101, 51)
FarFeature ==
    Feature(Some(BBoxOf(FarRect)),
            Some(Properties(JsonString("Far"), JsonNull, JsonString("UTC+07:00"),
                            JsonNull, JsonNumber(7000))),
            Some(GeoJsonGeometry(<<FarRect>>)))

\* the collections the sweep is run on
ScenarioACollection == <<ScenarioAFeature>>
MixedCollection == <<NepalFeature, IslandsFeature, ScenarioAFeature>>
SweepCollections == {<<>>, ScenarioACollection, MixedCollection}

\* LargeCount features; those whose id reaches i16::MAX lie over the origin
LargeCollection ==
    [i \in 1..LargeCount |->
        IF i >= 2 ^ (RoundIntBits - 1) THEN NepalFeature ELSE FarFeature]

\* line 18: -180..180, and line 19: -90..90
Longitudes == LNG_START..(LNG_END - 1)
Latitudes == LAT_START..(LAT_END - 1)

\* the whole grid
GridCells == Longitudes \X Latitudes
\* the cells the large collection is swept on
LargeCells == ((-1..1) \X (-1..1)) \cup {<<100, 50>>}

----------------------------------------------------------------------------
(* Dataset construction: get_timezones_from_features applied to a          *)
(* FeatureCollection.                                                      *)

Idle == [band |-> 0, y |-> 0, busy |-> FALSE]
NoKeys == [k \in {} |-> <<>>]
\* CHashMap::insert / HashMap::insert: the value under `key` is now `val`
Insert(m, key, val) ==
    [k \in DOMAIN m \cup {key} |-> IF k = key THEN val ELSE m[k]]
\* the map without `key`
Remove(m, key) == [k \in DOMAIN m \ {key} |-> m[k]]

\* no intersection test has run
NoTests == [p \in {} |-> 0]
\* neither destination holds a file
NoFiles == [timezone |-> None, cache |-> None]

\* the variables an entry point does not touch
RestBuild ==
    /\ sample = "" /\ cell = <<0, 0>> /\ intersected = <<>> /\ value = <<>> /\ ids = Panic
    /\ poolSize = 0 /\ pending = {} /\ worker = <<>> /\ map = NoKeys
    /\ writes = NoKeys /\ replaced = {} /\ cache = NoKeys /\ run = 0
    /\ artifacts = <<>>
    /\ tested = NoTests /\ files = NoFiles

InitBuild ==
    /\ features \in FeatureCollections
    /\ timezones = Panic
    /\ pc = "features"
    /\ RestBuild

Construct ==
    /\ pc = "features"
    /\ timezones' = get_timezones_from_features(features)
    /\ pc' = IF timezones'.ok THEN "timezones" ELSE "panicked"
    /\ UNCHANGED <<features, sample, cell, intersected, value, ids, poolSize, pending,
                   worker, map, writes, replaced, cache, run, artifacts, tested, files>>

NextBuild == Construct

SpecBuild == InitBuild /\ [][NextBuild]_vars

----------------------------------------------------------------------------
(* The loop body of get_cache_from_timezones (lines 20-33) applied to one  *)
(* cell of the grid.                                                       *)

\* the datasets the loop body is applied to, by name
LargeDataset == get_timezones_from_features(LargeCollection).val
SampleDataset(name) ==
    CASE name = "empty" -> get_timezones_from_features(<<>>).val
      [] name = "scenarioA" -> get_timezones_from_features(ScenarioACollection).val
      [] name = "mixed" -> get_timezones_from_features(MixedCollection).val
      [] name = "large" -> LargeDataset

CellInputs ==
    ({"empty", "scenarioA", "mixed"} \X GridCells) \cup ({"large"} \X LargeCells)

InitCell ==
    /\ \E input \in CellInputs :
        /\ sample = input[1]
        /\ cell = input[2]
    /\ features = <<>> /\ timezones = Panic /\ intersected = <<>>
    /\ value = <<>> /\ ids = Panic
    /\ poolSize = 0 /\ pending = {} /\ worker = <<>> /\ map = NoKeys
    /\ writes = NoKeys /\ replaced = {} /\ cache = NoKeys /\ run = 0
    /\ artifacts = <<>>
    /\ tested = NoTests /\ files = NoFiles
    /\ pc = "cell"

\* lines 20-33: build the Vec for the cell and insert it under the cell's
\* key
LoopBody ==
    /\ pc = "cell"
    /\ intersected' = Intersected(SampleDataset(sample), cell[1], cell[2])
    /\ map' = Insert(map, Key(cell[1], cell[2]), intersected')
    /\ pc' = "inserted"
    /\ UNCHANGED <<features, timezones, sample, cell, value, ids, poolSize,
                   pending, worker, writes, replaced, cache, run, artifacts, tested,
                   files>>

NextCell == LoopBody

SpecCell == InitCell /\ [][NextCell]_vars

----------------------------------------------------------------------------
(* i16_vec_to_tomezoneids applied to a Vec<i16>.                           *)

SampleIds == {-1, 0, 119}
SampleVecs == UNION {[1..n -> SampleIds] : n \in 0..MaxVecLen}

InitIds ==
    /\ value \in SampleVecs
    /\ ids = Panic
    /\ features = <<>> /\ timezones = Panic /\ sample = "" /\ cell = <<0, 0>>
    /\ intersected = <<>>
    /\ poolSize = 0 /\ pending = {} /\ worker = <<>> /\ map = NoKeys
    /\ writes = NoKeys /\ replaced = {} /\ cache = NoKeys /\ run = 0
    /\ artifacts = <<>>
    /\ tested = NoTests /\ files = NoFiles
    /\ pc = "vec"

Convert ==
    /\ pc = "vec"
    /\ ids' = i16_vec_to_tomezoneids(value)
    /\ pc' = IF ids'.ok THEN "converted" ELSE "panicked"
    /\ UNCHANGED <<features, sample, timezones, cell, intersected, value, poolSize,
                   pending, worker, map, writes, replaced, cache, run, artifacts, tested, files>>

NextIds == Convert

SpecIds == InitIds /\ [][NextIds]_vars

----------------------------------------------------------------------------
(* get_cache_from_timezones on a scaled-down grid: NumBands longitudes     *)
(* stand for the 360 of line 18 and NumRows latitudes for the 180 of line  *)
(* 19; every interleaving of the pool's workers is a behaviour.            *)

Bands == (0 - NumBands \div 2)..(NumBands - NumBands \div 2 - 1)
Rows == (0 - NumRows \div 2)..(NumRows - NumRows \div 2 - 1)
FirstRow == 0 - NumRows \div 2
\* the latitude range with an inclusive upper end (`..=`)
RowsEndInclusive == NumRows - NumRows \div 2 + 1
RowsEnd == NumRows - NumRows \div 2

\* history of an insert: who wrote the key, and whether a value was there
Written(w, key) ==
    Insert(writes, key,
           (IF key \in DOMAIN writes THEN writes[key] ELSE <<>>)
               \o <<[worker |-> w, band |-> worker[w].band]>>)

\* history of lines 27-31: the loop body run for (x, y) calls intersects
\* once on every record of the dataset
Tested(x, y) ==
    LET pairs == {<<x, y, i>> : i \in DOMAIN timezones.val}
    IN [p \in DOMAIN tested \cup pairs |->
           (IF p \in DOMAIN tested THEN tested[p] ELSE 0)
               + (IF p \in pairs THEN 1 ELSE 0)]

\* history of lines 27-31 cut short: the loop body run for (x, y) has called
\* intersects on the first n records only
TestedFirst(x, y, n) ==
    LET pairs == {<<x, y, i>> : i \in 1..n}
    IN [p \in DOMAIN tested \cup pairs |->
           (IF p \in DOMAIN tested THEN tested[p] ELSE 0)
               + (IF p \in pairs THEN 1 ELSE 0)]

\* the numbers of calls of line 28 a cell's loop body can have made when it
\* panics: inside the call on a record (line 28), the calls before it having
\* returned, or after the last call (lines 29-33)
PanicPoints ==
    IF Len(timezones.val) = 0 THEN {0} ELSE 1..Len(timezones.val)

Init ==
    /\ timezones \in {get_timezones_from_features(c) : c \in SweepCollections}
    /\ poolSize \in 1..MaxWorkers
    /\ pending = Bands
    /\ worker = [w \in 1..poolSize |-> Idle]
    /\ map = NoKeys
    /\ writes = NoKeys
    /\ replaced = {}
    /\ cache = NoKeys
    /\ pc = "sweep"
    /\ run = 1
    /\ artifacts = <<>>
    /\ tested = NoTests /\ files = NoFiles
    /\ features = <<>> /\ sample = "" /\ cell = <<0, 0>> /\ intersected = <<>>
    /\ value = <<>> /\ ids = Panic

\* for_each is running: no closure has panicked ("sweep"), or one has and
\* the pool is finishing what it still runs ("unwinding")
Sweeping == {"sweep", "unwinding"}

\* StartBand leaving the band for other workers to start again
StartBandShared(w, x) ==
    /\ pc = "sweep"
    /\ ~worker[w].busy
    /\ x \in pending
    /\ worker' = [worker EXCEPT ![w] = [band |-> x, y |-> FirstRow, busy |-> TRUE]]
    /\ UNCHANGED <<features, sample, timezones, cell, intersected, value, ids, poolSize,
                   pending, map, writes, replaced, cache, pc, run, artifacts, tested, files>>

\* line 18: a worker of the pool takes a longitude the pool has not started
StartBand(w, x) ==
    /\ pc \in Sweeping
    /\ ~worker[w].busy
    /\ x \in pending
    /\ pending' = pending \ {x}
    /\ worker' = [worker EXCEPT ![w] = [band |-> x, y |-> FirstRow, busy |-> TRUE]]
    /\ UNCHANGED <<features, sample, timezones, cell, intersected, value, ids, poolSize,
                   map, writes, replaced, cache, pc, run, artifacts, tested, files>>

\* lines 19-34: one iteration of `for y in -90..90` by worker w, ending in
\* map.insert; after the last latitude the worker is free again
InsertCell(w) ==
    /\ pc \in Sweeping
    /\ worker[w].busy
    /\ LET x == worker[w].band
           y == worker[w].y
           key == Key(x, y)
       IN /\ map' = Insert(map, key, Intersected(timezones.val, x, y))
          /\ writes' = Written(w, key)
          /\ replaced' = IF key \in DOMAIN map THEN replaced \cup {key} ELSE replaced
          /\ tested' = Tested(x, y)
          /\ worker' = [worker EXCEPT ![w] =
                           IF y + 1 < RowsEnd
                           THEN [band |-> x, y |-> y + 1, busy |-> TRUE]
                           ELSE Idle]
    /\ UNCHANGED <<features, sample, timezones, cell, intersected, value, ids, poolSize,
                   pending, cache, pc, run, artifacts, files>>

\* for_each returning while bands are still running
JoinEarly ==
    /\ pc = "sweep"
    /\ pending = {}
    /\ cache' = NoKeys
    /\ pc' = "drain"
    /\ UNCHANGED <<features, sample, timezones, cell, intersected, value, ids, poolSize,
                   pending, worker, map, writes, replaced, run, artifacts, tested,
                   files>>

\* line 35 to 37: for_each returns once every band has been run to its end;
\* let mut cache = HashMap::new()
Join ==
    /\ pc = "sweep"
    /\ pending = {}
    /\ \A w \in DOMAIN worker : ~worker[w].busy
    /\ cache' = NoKeys
    /\ pc' = "drain"
    /\ UNCHANGED <<features, sample, timezones, cell, intersected, value, ids, poolSize,
                   pending, worker, map, writes, replaced, run, artifacts, tested, files>>

\* a drain whose iterator leaves the entry it yielded in the map
DrainEntryKeeping(key) ==
    /\ pc = "drain"
    /\ key \in DOMAIN map
    /\ cache' = Insert(cache, key, map[key])
    /\ UNCHANGED <<features, sample, timezones, cell, intersected, value, ids, poolSize,
                   pending, worker, map, writes, replaced, pc, run, artifacts, tested,
                   files>>

\* lines 38-40: map.into_iter() yields an entry, in the order of the
\* CHashMap's buckets, and cache.insert stores it
DrainEntry(key) ==
    /\ pc = "drain"
    /\ key \in DOMAIN map
    /\ cache' = Insert(cache, key, map[key])
    /\ map' = Remove(map, key)
    /\ UNCHANGED <<features, sample, timezones, cell, intersected, value, ids, poolSize,
                   pending, worker, writes, replaced, pc, run, artifacts, tested, files>>

\* line 42: the iterator is exhausted and cache is returned
Return ==
    /\ pc = "drain"
    /\ DOMAIN map = {}
    /\ pc' = "returned"
    /\ UNCHANGED <<features, sample, timezones, cell, intersected, value, ids, poolSize,
                   pending, worker, map, writes, replaced, cache, run, artifacts, tested, files>>

Next ==
    \/ \E w \in DOMAIN worker : \E x \in Bands : StartBand(w, x)
    \/ \E w \in DOMAIN worker : InsertCell(w)
    \/ Join
    \/ \E key \in DOMAIN map : DrainEntry(key)
    \/ Return

Spec == Init /\ [][Next]_vars

\* fair scheduling: a worker thread that can take a band or run its next
\* cell eventually does, and so does the thread that called for_each
Fairness ==
    /\ \A w \in 1..MaxWorkers :
           WF_vars(/\ w \in DOMAIN worker
                   /\ \/ \E x \in Bands : StartBand(w, x)
                      \/ InsertCell(w))
    /\ WF_vars(Join \/ (\E key \in DOMAIN map : DrainEntry(key)) \/ Return)

SpecLive == Spec /\ Fairness

----------------------------------------------------------------------------
(* The sweep with a closure of line 18 that panics.  rayon catches the     *)
(* panic in the worker, lets the jobs already split off run or drops the   *)
(* bands of the unwound job, and resumes the panic on the thread that      *)
(* called for_each once no job is left.                                    *)

\* lines 18-35: the closure panics inside worker w's band, in the loop body
\* of the cell the worker is at, after some calls of line 28 for that cell
\* and before the cell's map.insert has stored anything; the band is
\* abandoned where it is and the worker is free again
WorkerPanic(w) ==
    /\ pc \in Sweeping
    /\ worker[w].busy
    /\ \E n \in PanicPoints :
           tested' = TestedFirst(worker[w].band, worker[w].y, n)
    /\ worker' = [worker EXCEPT ![w] = Idle]
    /\ pc' = "unwinding"
    /\ UNCHANGED <<features, sample, timezones, cell, intersected, value, ids, poolSize,
                   pending, map, writes, replaced, cache, run, artifacts, files>>

\* line 18: a band that was queued behind the panicked closure in the same
\* job is dropped with it and never run
SkipBand(x) ==
    /\ pc = "unwinding"
    /\ x \in pending
    /\ pending' = pending \ {x}
    /\ UNCHANGED <<features, sample, timezones, cell, intersected, value, ids, poolSize,
                   worker, map, writes, replaced, cache, pc, run, artifacts, tested,
                   files>>

\* the panic caught and dropped: the function goes on to the drain
UnwindSwallowed ==
    /\ pc = "unwinding"
    /\ pending = {}
    /\ \A w \in DOMAIN worker : ~worker[w].busy
    /\ cache' = NoKeys
    /\ pc' = "drain"
    /\ UNCHANGED <<features, sample, timezones, cell, intersected, value, ids, poolSize,
                   pending, worker, map, writes, replaced, run, artifacts, tested,
                   files>>

\* line 35: for_each resumes the panic in get_cache_from_timezones, which
\* unwinds through generate_cache_bincode: the CHashMap is dropped, lines
\* 37-42 and line 56 are never reached
Unwind ==
    /\ pc = "unwinding"
    /\ pending = {}
    /\ \A w \in DOMAIN worker : ~worker[w].busy
    /\ map' = NoKeys
    /\ pc' = "panicked"
    /\ UNCHANGED <<features, sample, timezones, cell, intersected, value, ids, poolSize,
                   pending, worker, writes, replaced, cache, run, artifacts, tested,
                   files>>

----------------------------------------------------------------------------
(* generate_cache_bincode run repeatedly on one unchanged dataset, on the  *)
(* scaled-down grid.                                                       *)

\* number of runs of generate_cache_bincode that are compared
MaxRuns == 2

\* the orders in which a set of keys can be listed
RECURSIVE Permutations(_)
Permutations(keys) ==
    IF keys = {} THEN {<<>>}
    ELSE UNION {{<<k>> \o rest : rest \in Permutations(keys \ {k})} :
                   k \in keys}

\* the orders in which a HashMap holding `keys` may iterate: std's
\* HashMap::new() draws a RandomState and iterates in bucket order of the
\* keyed hashes, so any order of the keys can come out, and a different one
\* from map to map
IterationOrders(keys) == Permutations(keys)

\* bincode of a HashMap<RoundLngLat, Vec<i16>> iterated in `order`: the
\* length, then each key followed by its length-prefixed value
Encode(m, order) ==
    <<Cardinality(DOMAIN m)>>
        \o [i \in DOMAIN order |-> <<order[i], Len(m[order[i]]), m[order[i]]>>]

\* line 56: std::fs::write(bincode_destination, encode_to_vec(cache, ..));
\* cache is moved into the encoder, and the sweep's history ends with it
WriteCache ==
    /\ pc = "returned"
    /\ \E order \in IterationOrders(DOMAIN cache) :
        /\ artifacts' = Append(artifacts, Encode(cache, order))
        /\ files' = [files EXCEPT !.cache = Some(Encode(cache, order))]
    /\ cache' = NoKeys
    /\ writes' = NoKeys
    /\ pc' = "written"
    /\ UNCHANGED <<features, sample, timezones, cell, intersected, value, ids, poolSize,
                   pending, worker, map, replaced, run, tested>>

\* generate_cache_bincode is called again on the same dataset artifact, on
\* a pool of any size
RunAgain ==
    /\ pc = "written"
    /\ run < MaxRuns
    /\ run' = run + 1
    /\ poolSize' \in 1..MaxWorkers
    /\ pending' = Bands
    /\ worker' = [w \in 1..poolSize' |-> Idle]
    /\ map' = NoKeys
    /\ writes' = NoKeys
    /\ replaced' = {}
    /\ cache' = NoKeys
    /\ tested' = NoTests
    /\ pc' = "sweep"
    /\ UNCHANGED <<features, sample, timezones, cell, intersected, value, ids,
                   artifacts, files>>

NextArtifact ==
    \/ \E w \in DOMAIN worker : \E x \in Bands : StartBand(w, x)
    \/ \E w \in DOMAIN worker : InsertCell(w)
    \/ Join
    \/ \E key \in DOMAIN map : DrainEntry(key)
    \/ Return
    \/ WriteCache
    \/ RunAgain

SpecArtifact == Init /\ [][NextArtifact]_vars

\* generate_cache_bincode run once, a closure of the sweep possibly panicking
NextFail ==
    \/ \E w \in DOMAIN worker : \E x \in Bands : StartBand(w, x)
    \/ \E w \in DOMAIN worker : InsertCell(w)
    \/ \E w \in DOMAIN worker : WorkerPanic(w)
    \/ \E x \in Bands : SkipBand(x)
    \/ Unwind
    \/ Join
    \/ \E key \in DOMAIN map : DrainEntry(key)
    \/ Return
    \/ WriteCache

SpecFail == Init /\ [][NextFail]_vars

----------------------------------------------------------------------------
(* generate_bincodes: generate_timezone_bincode, then                      *)
(* generate_cache_bincode on the file it wrote, on the scaled-down grid.   *)
(* A read or write of a file succeeds or fails.                            *)

\* the FeatureCollections generate_bincodes is run on
GenerateCollections ==
    SweepCollections
        \cup {<<ScenarioAFeature,
                WithProperties(Some(Without(ScenarioAProperties, "time_zone")))>>}

\* bincode of a ConcreteTimezones: the length of the Vec, then each
\* NedTimezone as its fields in declaration order
EncodeTimezones(tzs) ==
    <<Len(tzs)>>
        \o [i \in DOMAIN tzs |->
               <<tzs[i].id, tzs[i].identifier, tzs[i].description,
                 tzs[i].dst_description, tzs[i].offset, tzs[i].zone,
                 tzs[i].raw_offset, tzs[i].bbox, tzs[i].geometry>>]

\* line 52: decode_from_slice(..).unwrap(): fails on bytes that end before
\* the records their length prefix announces
DecodeTimezones(bytes) ==
    IF Len(bytes) = 0 \/ Len(bytes) < bytes[1] + 1
    THEN Panic
    ELSE Ok([i \in 1..bytes[1] |->
                [id |-> bytes[i + 1][1],
                 identifier |-> bytes[i + 1][2],
                 description |-> bytes[i + 1][3],
                 dst_description |-> bytes[i + 1][4],
                 offset |-> bytes[i + 1][5],
                 zone |-> bytes[i + 1][6],
                 raw_offset |-> bytes[i + 1][7],
                 bbox |-> bytes[i + 1][8],
                 geometry |-> bytes[i + 1][9]]])

\* what a failed std::fs::write of `bytes` leaves at a destination that
\* held `old`: the file could not be created and is as it was, or it was
\* created (truncated) and holds the bytes written before the write call
\* that failed, none, some or all but the last
FailedWrite(old, bytes) ==
    {old} \cup {Some(SubSeq(bytes, 1, n)) : n \in 0..(Len(bytes) - 1)}

InitGenerate ==
    /\ features \in GenerateCollections
    /\ timezones = Panic
    /\ poolSize \in 1..MaxWorkers
    /\ pending = {}
    /\ worker = <<>>
    /\ map = NoKeys
    /\ writes = NoKeys
    /\ replaced = {}
    /\ cache = NoKeys
    /\ pc = "generate"
    /\ run = 1
    /\ artifacts = <<>>
    /\ tested = NoTests
    /\ files = NoFiles
    /\ sample = "" /\ cell = <<0, 0>> /\ intersected = <<>>
    /\ value = <<>> /\ ids = Panic

\* lines 66-70, called at line 75: construct the dataset and write it
GenerateTimezoneBincode ==
    /\ pc = "generate"
    /\ LET tzs == get_timezones_from_features(features)
       IN IF ~tzs.ok
          THEN pc' = "panicked" /\ files' = files
          ELSE \/ /\ files' = [files EXCEPT !.timezone =
                                    Some(EncodeTimezones(tzs.val))]
                  /\ pc' = "timezone_written"
               \/ /\ \E left \in FailedWrite(files.timezone,
                                             EncodeTimezones(tzs.val)) :
                        files' = [files EXCEPT !.timezone = left]
                  /\ pc' = "panicked"
    /\ UNCHANGED <<features, sample, timezones, cell, intersected, value, ids, poolSize,
                   pending, worker, map, writes, replaced, cache, run, artifacts,
                   tested>>

\* lines 51-54, called at line 76: read the dataset file back, decode it
\* and enter get_cache_from_timezones (line 16)
ReadTimezones ==
    /\ pc = "timezone_written"
    /\ \/ /\ IsSome(files.timezone)
          /\ timezones' = DecodeTimezones(Unwrap(files.timezone))
          /\ IF timezones'.ok
             THEN /\ pc' = "sweep"
                  /\ pending' = Bands
                  /\ worker' = [w \in 1..poolSize |-> Idle]
             ELSE /\ pc' = "panicked"
                  /\ UNCHANGED <<pending, worker>>
       \/ /\ pc' = "panicked"
          /\ UNCHANGED <<timezones, pending, worker>>
    /\ UNCHANGED <<features, sample, cell, intersected, value, ids, poolSize, map,
                   writes, replaced, cache, run, artifacts, tested, files>>

\* line 56: std::fs::write(..).unwrap() failing; cache was moved into
\* encode_to_vec before the write was tried
WriteCacheFails ==
    /\ pc = "returned"
    /\ \E order \in IterationOrders(DOMAIN cache) :
           \E left \in FailedWrite(files.cache, Encode(cache, order)) :
               files' = [files EXCEPT !.cache = left]
    /\ cache' = NoKeys
    /\ writes' = NoKeys
    /\ pc' = "panicked"
    /\ UNCHANGED <<features, sample, timezones, cell, intersected, value, ids, poolSize,
                   pending, worker, map, replaced, run, artifacts, tested>>

NextGenerate ==
    \/ GenerateTimezoneBincode
    \/ ReadTimezones
    \/ \E w \in DOMAIN worker : \E x \in Bands : StartBand(w, x)
    \/ \E w \in DOMAIN worker : InsertCell(w)
    \/ \E w \in DOMAIN worker : WorkerPanic(w)
    \/ \E x \in Bands : SkipBand(x)
    \/ Unwind
    \/ Join
    \/ \E key \in DOMAIN map : DrainEntry(key)
    \/ Return
    \/ WriteCache
    \/ WriteCacheFails

SpecGenerate == InitGenerate /\ [][NextGenerate]_vars

----------------------------------------------------------------------------
(* Properties of dataset construction (SpecBuild).                         *)

Constructed == pc \in {"timezones", "panicked"}

HasKey(feature, key) ==
    IsSome(feature.properties) /\ key \in DOMAIN Unwrap(feature.properties)
HasTyped(feature, key, type) ==
    HasKey(feature, key) /\ Unwrap(feature.properties)[key].t = type

\* a required property is absent or mistyped, or the geometry does not convert
LacksRequired(feature) ==
    \/ ~HasTyped(feature, "places", "string")
    \/ ~HasTyped(feature, "time_zone", "string")
    \/ ~HasTyped(feature, "zone", "number")
    \/ ~IsSome(feature.geometry)
    \/ ~Unwrap(feature.geometry).convertible

\* a bounding box, a convertible geometry and every required property
HasRequired(feature) ==
    /\ IsSome(feature.bbox) /\ Len(Unwrap(feature.bbox)) >= 4
    /\ ~LacksRequired(feature)

\* C5: when a feature lacks (or mistypes) "places", "time_zone" or "zone", or
\* its geometry does not convert, construction fails for the whole
\* collection; a returned dataset has one record per feature and each
\* record's required fields are the feature's own values.
C5_FailFast ==
    Constructed =>
        /\ (\E i \in DOMAIN features : LacksRequired(features[i])) => ~timezones.ok
        /\ timezones.ok =>
            /\ Len(timezones.val) = Len(features)
            /\ \A i \in DOMAIN features :
                LET properties == Unwrap(features[i].properties)
                    tz == timezones.val[i]
                IN /\ HasRequired(features[i])
                   /\ tz.description = properties["places"].s
                   /\ tz.offset = properties["time_zone"].s
                   /\ tz.zone = AsF32(properties["zone"].n)
                   /\ tz.geometry = Unwrap(features[i].geometry).rects

\* Scenario B behind a good feature: construction has panicked on a
\* collection whose second feature has no "time_zone"
C5_Witness ==
    /\ pc = "panicked"
    /\ Len(features) = 2
    /\ features[1] = ScenarioAFeature
    /\ HasKey(features[2], "places") /\ ~HasKey(features[2], "time_zone")

\* C6 as claimed: a collection whose features all have a bounding box, a
\* convertible geometry and the required properties is constructed, the
\* absent optional keys giving None.
C6_OptionalKeysMayBeAbsent ==
    (Constructed /\ \A i \in DOMAIN features : HasRequired(features[i])) =>
        /\ timezones.ok
        /\ \A i \in DOMAIN features :
            /\ ~HasKey(features[i], "dst_places") =>
                   timezones.val[i].dst_description = None
            /\ ~HasKey(features[i], "tz_name1st") =>
                   timezones.val[i].identifier = None

\* C7: a constructed dataset has one record per feature, in feature order,
\* and the record at position i (from 0) has id i.
C7_SequentialIds ==
    (Constructed /\ timezones.ok) =>
        /\ Len(timezones.val) = Len(features)
        /\ \A i \in DOMAIN features :
            /\ timezones.val[i].id = i - 1
            /\ timezones.val[i].description =
                   Unwrap(features[i].properties)["places"].s
            /\ timezones.val[i].geometry = Unwrap(features[i].geometry).rects
        /\ \A i, j \in DOMAIN timezones.val :
            i # j => timezones.val[i].id # timezones.val[j].id
        /\ {timezones.val[i].id : i \in DOMAIN timezones.val}
               = 0..(Len(features) - 1)

\* a dataset of two different records has been constructed
C7_Witness ==
    /\ pc = "timezones"
    /\ Len(timezones.val) = 2
    /\ timezones.val[1].description # timezones.val[2].description

----------------------------------------------------------------------------
(* Properties of the loop body (SpecCell).  Intersection is restated on    *)
(* points: rectangles with lattice corners share a point exactly when      *)
(* they share a lattice point.                                             *)

Elements(seq) == {seq[i] : i \in DOMAIN seq}

PointIn(p, r) ==
    r.minx <= p[1] /\ p[1] <= r.maxx /\ r.miny <= p[2] /\ p[2] <= r.maxy
Covers(geometry, p) == \E i \in DOMAIN geometry : PointIn(p, geometry[i])
Meets(geometry, points) == \E p \in points : Covers(geometry, p)

\* the lattice points of [x, x+1] x [y, y+1]
ClosedCell(c) ==
    ((c[1] * UnitsPerDegree)..((c[1] + 1) * UnitsPerDegree))
        \X ((c[2] * UnitsPerDegree)..((c[2] + 1) * UnitsPerDegree))
\* the lattice points of [x, x+1) x [y, y+1)
HalfOpenCell(c) ==
    ((c[1] * UnitsPerDegree)..((c[1] + 1) * UnitsPerDegree - 1))
        \X ((c[2] * UnitsPerDegree)..((c[2] + 1) * UnitsPerDegree - 1))

\* the dataset the loop body read
Swept == SampleDataset(sample)

\* positions of the records whose geometry meets a set of points
Meeting(points) ==
    {i \in DOMAIN Swept : Meets(Swept[i].geometry, points)}

\* C1: the entry of a cell holds exactly the ids of the records whose
\* geometry intersects the half-open rectangle [x, x+1) x [y, y+1): no id of
\* a record that misses it is present and no id of a record that meets it
\* is missing.
C1_HalfOpenExact ==
    pc = "inserted" =>
        Elements(intersected)
            = {Swept[i].id : i \in Meeting(HalfOpenCell(cell))}

IsScenarioA ==
    /\ Len(Swept) = 1
    /\ Swept[1].id = 0
    /\ Swept[1].identifier = Some("Test/Zone")
    /\ Swept[1].zone = AsF32(0)
    /\ Swept[1].geometry = <<Box(-10, -10, 10, 10)>>

\* C2 as claimed: Scenario A gives [0] on lng -10..9, lat -10..9 and []
\* elsewhere, the cells that only touch the polygon included.
C2_ScenarioAInterior ==
    (pc = "inserted" /\ IsScenarioA) =>
        intersected = IF cell \in (-10..9) \X (-10..9) THEN <<0>> ELSE <<>>

\* C2 amended: Scenario A gives [0] on lng -11..10, lat -11..10 (the cells
\* that touch the polygon's boundary included) and [] elsewhere.
C2_ScenarioATouching ==
    (pc = "inserted" /\ IsScenarioA) =>
        intersected = IF cell \in (-11..10) \X (-11..10) THEN <<0>> ELSE <<>>

\* the entry of a cell that touches the Scenario A polygon only at the
\* corner (10, 10) has been built and holds id 0
C2_Witness ==
    pc = "inserted" /\ IsScenarioA /\ cell = <<10, 10>> /\ intersected = <<0>>

\* C9 as claimed: every entry lists its ids in strictly ascending order.
C9_StrictlyAscending ==
    pc = "inserted" =>
        \A i \in 1..(Len(intersected) - 1) : intersected[i] < intersected[i + 1]

----------------------------------------------------------------------------
(* Properties of i16_vec_to_tomezoneids (SpecIds).                         *)

\* C4: an entry of length L <= 5 becomes 5 slots, the first L the entry in
\* order and the rest -1; a longer entry makes the conversion panic.
C4_PadOrPanic ==
    pc # "vec" =>
        IF Len(value) <= 5
        THEN /\ ids.ok
             /\ Len(ids.val) = 5
             /\ \A i \in 1..5 :
                 ids.val[i] = IF i <= Len(value) THEN value[i] ELSE -1
        ELSE ~ids.ok /\ pc = "panicked"

\* the conversion of a six-element entry has panicked
C4_Witness == pc = "panicked" /\ Len(value) = 6 /\ ~ids.ok

----------------------------------------------------------------------------
(* Properties of the concurrent sweep (Spec).                              *)

SweptKeys == {Key(x, y) : x \in Bands, y \in Rows}

\* C10: in every interleaving and for every pool size, each key of the
\* concurrent map is inserted once, by the worker that runs the key's
\* longitude band, and no insert finds a value already under its key; when
\* the bands have all finished every key has been inserted.
C10_SingleWriter ==
    /\ replaced = {}
    /\ \A key \in DOMAIN writes :
        /\ Len(writes[key]) = 1
        /\ ToRoundInt(writes[key][1].band) = key[1]
    /\ \A k1, k2 \in DOMAIN writes :
        (k1[1] = k2[1]) => writes[k1][1].worker = writes[k2][1].worker
    /\ pc # "sweep" => DOMAIN writes = SweptKeys

\* two workers are inside their bands at once, each having inserted, and
\* no band is left to take
C10_Witness ==
    /\ pc = "sweep"
    /\ poolSize = 2
    /\ worker[1].busy /\ worker[2].busy
    /\ worker[1].y > FirstRow /\ worker[2].y > FirstRow
    /\ pending = {}

\* C8: when get_cache_from_timezones returns, the keys of the mapping are
\* exactly the cells of the grid, one per longitude and latitude of the
\* sweep (NumBands * NumRows of them, for the 64,800 of the full grid),
\* whatever the dataset, the empty one included.
C8_AllCells ==
    pc = "returned" =>
        /\ DOMAIN cache = Bands \X Rows
        /\ Cardinality(DOMAIN cache) = NumBands * NumRows

\* the sweep of the empty dataset has returned, every cell with an empty entry
C8_Witness ==
    /\ pc = "returned"
    /\ timezones.val = <<>>
    /\ DOMAIN cache # {}
    /\ \A key \in DOMAIN cache : cache[key] = <<>>

----------------------------------------------------------------------------
(* Properties of the returned mapping and of the drain (Spec).             *)

\* the mapping the dataset alone determines: per cell, the entry the loop
\* body builds for it
MappingOf(tzs) == [k \in Bands \X Rows |-> Intersected(tzs, k[1], k[2])]

\* C11: the mapping get_cache_from_timezones returns is a function of the
\* dataset alone: whatever the pool size, the order in which the bands were
\* taken, the interleaving of the inserts and the order of the drain, the
\* returned mapping has the same keys and the same ordered entry per key.
C11_FunctionOfDataset ==
    pc = "returned" => cache = MappingOf(timezones.val)

\* a sweep of two workers has returned a mapping with differing entries,
\* the second worker having run the first band and the first worker the
\* second
C11_Witness ==
    /\ pc = "returned"
    /\ poolSize = 2
    /\ \E k1, k2 \in DOMAIN cache : cache[k1] # cache[k2]
    /\ \A key \in DOMAIN writes :
        /\ key[1] = 0 - NumBands \div 2 => writes[key][1].worker = 2
        /\ key[1] = 1 - NumBands \div 2 => writes[key][1].worker = 1

\* the entries of the concurrent map and of the plain mapping together
Merged == [k \in DOMAIN map \cup DOMAIN cache |->
              IF k \in DOMAIN map THEN map[k] ELSE cache[k]]

\* C12: the drain starts only when every band has been taken and run to
\* its last insert, with every key in the concurrent map; from then on no
\* insert reaches the concurrent map, and every step of the drain moves
\* entries from it to the plain mapping without changing a value, so the
\* mapping holds for each key the value its worker inserted; before the
\* drain an insert never changes the value under another key.
C12_DrainAfterJoin ==
    [][/\ (pc = "sweep" /\ pc' = "drain") =>
            /\ pending = {}
            /\ \A w \in DOMAIN worker : ~worker[w].busy
            /\ DOMAIN writes = SweptKeys
            /\ DOMAIN map = SweptKeys
            /\ cache' = NoKeys
       /\ pc = "sweep" =>
            \A k \in DOMAIN map : k \in DOMAIN map' /\ map'[k] = map[k]
       /\ pc \in {"drain", "returned"} =>
            /\ pc' \in {"drain", "returned"}
            /\ writes' = writes
            /\ DOMAIN map' \subseteq DOMAIN map
            /\ DOMAIN map' \cap DOMAIN cache' = {}
            /\ Merged' = Merged]_vars

\* the drain of a two-worker sweep is under way: some entries have been
\* moved to the plain mapping, a non-empty one among them, others not yet
C12_Witness ==
    /\ pc = "drain"
    /\ poolSize = 2
    /\ DOMAIN map # {}
    /\ \E k \in DOMAIN cache : cache[k] # <<>>

----------------------------------------------------------------------------
(* Properties of a sweep in which a worker panics (SpecFail).              *)

\* the keys a cache artifact lists
ArtifactKeys(bytes) == {bytes[i][1] : i \in 2..Len(bytes)}

\* C13: once a worker has panicked in its band the build never returns a
\* mapping and never writes a cache artifact, whatever the other workers
\* still insert; and a cache artifact that has been written lists every
\* cell of the grid, so it comes only from a sweep that completed.
C13_WorkerFailureAborts ==
    /\ [](pc \in {"unwinding", "panicked"} =>
            /\ cache = NoKeys
            /\ artifacts = <<>>
            /\ files.cache = None)
    /\ [][(pc \in {"unwinding", "panicked"}) =>
               (pc' \in {"unwinding", "panicked"})]_vars
    /\ [](IsSome(files.cache) =>
            /\ ArtifactKeys(Unwrap(files.cache)) = SweptKeys
            /\ Unwrap(files.cache)[1] = NumBands * NumRows
            /\ \A x \in Bands, y \in Rows, i \in DOMAIN timezones.val :
                   <<x, y, i>> \in DOMAIN tested)

\* a two-worker build has failed after a worker panicked, the other cells
\* of that band missing, while another band had been inserted in full
C13_Witness ==
    /\ pc = "panicked"
    /\ poolSize = 2
    /\ \E x \in Bands : \A y \in Rows : Key(x, y) \in DOMAIN writes
    /\ \E x \in Bands : \E y1, y2 \in Rows :
           Key(x, y1) \in DOMAIN writes /\ Key(x, y2) \notin DOMAIN writes

----------------------------------------------------------------------------
(* Properties of generate_bincodes (SpecGenerate).                         *)

\* C14 as claimed: when generate_bincodes has failed neither destination
\* holds anything the run wrote, and when it has ended, either way, the
\* dataset destination holds an artifact only if the cache destination
\* holds one.
C14_AllOrNothing ==
    /\ pc = "panicked" => files = NoFiles
    /\ pc \in {"panicked", "written"} =>
           (IsSome(files.timezone) => IsSome(files.cache))

----------------------------------------------------------------------------
(* Properties of the stored ids (SpecCell).                                *)

\* C15 as claimed: whatever the size of the dataset, the ids stored in a
\* cell's entry are, as integers, the ids of the records that intersect
\* the cell, and none is negative, so none is the sentinel -1.
C15_StoredIdsAreRecordIds ==
    pc = "inserted" =>
        /\ Elements(intersected)
               = {Swept[i].id : i \in Meeting(ClosedCell(cell))}
        /\ \A i \in DOMAIN intersected : intersected[i] >= 0

----------------------------------------------------------------------------
(* Termination of the sweep (SpecLive).                                    *)

\* the (cell, record) pairs of the grid and the dataset
AllPairs == {<<x, y, i>> : x \in Bands, y \in Rows, i \in DOMAIN timezones.val}

\* every pair has been tested, each once
TestedOnce ==
    /\ DOMAIN tested = AllPairs
    /\ \A p \in DOMAIN tested : tested[p] = 1
    /\ Cardinality(DOMAIN tested) = NumBands * NumRows * Len(timezones.val)

\* C16: under fair scheduling of the workers, for every dataset and every
\* pool size from 1 up, the sweep ends: every band is taken and finished,
\* the drain completes and get_cache_from_timezones returns, and by then
\* intersects has run exactly once on every (cell, record) pair.
C16_TerminatesTestedOnce ==
    <>[](pc = "returned" /\ pending = {} /\ DOMAIN map = {} /\ TestedOnce)

\* the sweep of the three-record dataset by two workers has returned, both
\* workers having run cells
C16_Witness ==
    /\ pc = "returned"
    /\ poolSize = 2
    /\ Len(timezones.val) = 3
    /\ Cardinality(DOMAIN tested) = NumBands * NumRows * 3
    /\ \E k1, k2 \in DOMAIN writes :
           writes[k1][1].worker = 1 /\ writes[k2][1].worker = 2

----------------------------------------------------------------------------
(* Properties of the cache artifact (SpecArtifact).                        *)

\* C3 as claimed: two runs on the same unchanged dataset write
\* byte-identical cache artifacts, whatever the pool sizes and the order
\* of inserts and of the drain.
C3_SameArtifact ==
    Len(artifacts) = 2 => artifacts[1] = artifacts[2]

====
